---- MODULE Spec2Model ----
(***************************************************************************)
(* A model of the nass NES core: the CPU bus (src/cpu/bus.rs), the PPU     *)
(* register file (src/ppu/ppu.rs), the loopy address register              *)
(* (src/ppu/addr_register.rs) and the frame buffer (src/frame/mod.rs).     *)
(*                                                                         *)
(* BUS::read / BUS::write / BUS::tick call the PPU through the names       *)
(* write_to_ctrl, write_to_oam, read_status, ...; the PPU of ppu.rs        *)
(* carries the same operations as set_controller, set_oam_data, read, ...  *)
(* The definitions named after the bus's callees bind each call to the     *)
(* ppu.rs function that implements the register.                           *)
(*                                                                         *)
(* u8 / u16 arithmetic keeps its width.  A `+=` on a u8 panics when the    *)
(* crate is built with overflow checks (the dev and test profiles) and     *)
(* wraps otherwise (the release profile): overflow_checks is the build's   *)
(* setting, panicked is true once the program has aborted.                 *)
(***************************************************************************)
EXTENDS Integers, Sequences, FiniteSets, TLC

VARIABLES
    bus,              \* the BUS struct: ram, ppu, interrupt, suspend
    addr,             \* an AddrRegister: value = <<high, low>>, hi_ptr
    temp,             \* the u16 passed to AddrRegister::update as `temp`
    overflow_checks,  \* build profile: TRUE = integer overflow panics
    panicked,         \* the program has aborted with a panic
    last,             \* the last operation: its name, arguments and result
    prev,             \* the operation before the last
    raised,           \* NMIs raised since the CPU last took the interrupt (at most 2 counted)
    nops,             \* number of operations performed so far
    frame             \* the Frame: its pixel buffer and its cursor

vars == <<bus, addr, temp, overflow_checks, panicked, last, prev, raised, nops, frame>>

(***************************************************************************)
(* Fixed-width integer operators of the source language.                   *)
(***************************************************************************)
RECURSIVE BitAnd(_, _)
BitAnd(a, b) ==
    IF a = 0 \/ b = 0 THEN 0
    ELSE (a % 2) * (b % 2) + 2 * BitAnd(a \div 2, b \div 2)

RECURSIVE BitOr(_, _)
BitOr(a, b) ==
    IF a = 0 THEN b
    ELSE IF b = 0 THEN a
    ELSE (IF a % 2 = 1 \/ b % 2 = 1 THEN 1 ELSE 0) + 2 * BitOr(a \div 2, b \div 2)

RECURSIVE BitXor(_, _)
BitXor(a, b) ==
    IF a = 0 THEN b
    ELSE IF b = 0 THEN a
    ELSE ((a + b) % 2) + 2 * BitXor(a \div 2, b \div 2)

\* !m on a u8 / u16
NotU8(m) == 255 - m
NotU16(m) == 65535 - m

\* x << n on a u8 / u16: bits shifted out are dropped, no panic for n < width
ShlU8(x, n) == (x * (2 ^ n)) % 256
ShlU16(x, n) == (x * (2 ^ n)) % 65536
Shr(x, n) == x \div (2 ^ n)

\* u8::wrapping_add
WrappingAddU8(a, b) == (a + b) % 256

\* `a += b` on a u8: the value stored, and whether the addition overflowed
AddAssignU8(a, b) == [value |-> (a + b) % 256, overflow |-> a + b > 255]

Byte == 0 .. 255

(***************************************************************************)
(* Zero-initialised byte arrays ([0; N]) are kept as the map of their      *)
(* non-zero cells.                                                         *)
(***************************************************************************)
ZeroArray == [k \in {} |-> 0]

Cell(m, i) == IF i \in DOMAIN m THEN m[i] ELSE 0

Store(m, i, x) ==
    IF x = 0
    THEN IF i \in DOMAIN m THEN [k \in (DOMAIN m) \ {i} |-> m[k]] ELSE m
    ELSE IF i \in DOMAIN m THEN [m EXCEPT ![i] = x] ELSE (i :> x) @@ m

RAM_SIZE == \h800
PPU_RAM_SIZE == \h4000
OAM_SIZE == \h100

(***************************************************************************)
(* PPU (src/ppu/ppu.rs).  A PPU value is a record of the struct's fields;  *)
(* secondary_oam is never read or written and is left out.  nmi_occured is *)
(* the field BUS::tick reads and clears (bus.rs:80-82).                    *)
(***************************************************************************)
PPU_new ==
    [ registers       |-> [i \in 0 .. 7 |-> 0],
      status          |-> "PreRender",
      even_frame      |-> TRUE,
      show_background |-> FALSE,
      show_sprites    |-> FALSE,
      v_blank         |-> FALSE,
      sprite_zero     |-> FALSE,
      vram_addr       |-> 0,
      temp_vram_addr  |-> 0,
      w_toggle        |-> FALSE,
      interrupt       |-> "NULL",
      cycle           |-> 0,
      oam_dma         |-> 0,
      oam             |-> ZeroArray,
      vram            |-> ZeroArray,
      nmi_occured     |-> FALSE ]

clear_status(p) ==
    [p EXCEPT !.v_blank = FALSE,
              !.registers[2] = BitAnd(@, \h1F)]

\* PPU::step: returns the interrupt field; the dot counter advances by 8
PPU_step(p) ==
    LET p1 == IF p.status = "PreRender" /\ p.cycle = 1 THEN clear_status(p) ELSE p
        p2 == [p1 EXCEPT !.even_frame = ~p1.even_frame]
        p3 == [p2 EXCEPT !.cycle = IF p2.cycle = 340 THEN 0 ELSE p2.cycle + 8]
    IN  [ppu |-> p3, ret |-> p3.interrupt]

\* PPU::write: a plain store into the register file (or the DMA byte)
PPU_write(p, a, val) ==
    IF a < 8
    THEN [p EXCEPT !.registers[BitAnd(a, \h7)] = val]
    ELSE [p EXCEPT !.oam_dma = val]

get_oam_data(p) == Cell(p.oam, p.registers[3])

\* PPU::read takes &self: it returns a byte and changes nothing
PPU_read(p, a) ==
    IF a < 8
    THEN LET i == BitAnd(a, \h7)
         IN  IF i = 4 THEN get_oam_data(p) ELSE p.registers[i]
    ELSE p.oam_dma

set_oam_data(p, val) ==
    LET oam_addr == p.registers[3]
        stored   == [p EXCEPT !.oam = Store(@, oam_addr, val)]
        sum      == AddAssignU8(stored.registers[3], 1)
    IN  IF sum.overflow /\ overflow_checks
        THEN [ppu |-> stored, panic |-> TRUE]
        ELSE [ppu |-> [stored EXCEPT !.registers[3] = sum.value], panic |-> FALSE]

\* first $2006 write (ppu.rs:242-244): t with its high byte set from val
addr_first_write_8bit(t0, val) ==
    BitOr(BitAnd(t0, \hFF), ShlU16(BitAnd(val, \hFF), 8))
addr_first_write(t0, val) ==
    LET cdefgh == ShlU16(BitAnd(val, \h3F), 8)
        t      == BitAnd(t0, \hFF)
    IN  BitOr(t, cdefgh)

\* second $2006 write (ppu.rs:229-230): t with its low byte set from val
addr_second_write(t0, val) ==
    LET t == BitAnd(t0, \h7F00)
    IN  BitOr(t, val)

write_twice(p, reg_n, val) ==
    LET register == p.registers[reg_n]
    IN  IF p.w_toggle
        THEN LET t5 == IF reg_n = 5
                       THEN LET abcde == BitAnd(val, \hF8)
                                fgh   == BitAnd(val, \h07)
                                t     == BitAnd(p.temp_vram_addr, \hC1F)
                            IN  BitOr(BitOr(t, ShlU16(abcde, 2)), ShlU16(fgh, 12))
                       ELSE p.temp_vram_addr
                 t6 == IF reg_n = 6 THEN addr_second_write(t5, val) ELSE t5
                 v6 == IF reg_n = 6 THEN t6 ELSE p.vram_addr
             IN  [p EXCEPT !.temp_vram_addr = t6,
                           !.vram_addr = v6,
                           !.registers[reg_n] = BitOr(BitAnd(register, \hF0), BitAnd(val, \h0F)),
                           !.w_toggle = FALSE]
        ELSE LET t5 == IF reg_n = 5
                       THEN LET c_x_scroll == Shr(BitAnd(val, \hF8), 3)
                            IN  BitOr(BitAnd(p.temp_vram_addr, \hFFE0), c_x_scroll)
                       ELSE p.temp_vram_addr
                 t6 == IF reg_n = 6 THEN addr_first_write(t5, val) ELSE t5
             IN  [p EXCEPT !.temp_vram_addr = t6,
                           !.registers[reg_n] = BitOr(BitAnd(register, \h0F), ShlU8(val, 4)),
                           !.w_toggle = TRUE]

get_increment(p) ==
    LET inc == BitAnd(p.registers[0], \h4)
    IN  IF inc = 4 THEN 32 ELSE 1

set_vram(p, val) ==
    IF (~p.show_background /\ ~p.show_sprites) \/ p.v_blank
    THEN LET ppu_addr == p.registers[6]
             stored   == [p EXCEPT !.vram = Store(@, ppu_addr, val)]
             sum      == AddAssignU8(stored.registers[6], get_increment(stored))
         IN  IF sum.overflow /\ overflow_checks
             THEN [ppu |-> stored, panic |-> TRUE]
             ELSE [ppu |-> [stored EXCEPT !.registers[6] = sum.value], panic |-> FALSE]
    ELSE [ppu |-> p, panic |-> FALSE]

get_vram(p) ==
    IF (~p.show_background /\ ~p.show_sprites) \/ p.v_blank
    THEN LET ppu_addr == p.registers[6]
             sum      == AddAssignU8(p.registers[6], get_increment(p))
         IN  IF sum.overflow /\ overflow_checks
             THEN [ppu |-> p, ret |-> 0, panic |-> TRUE]
             ELSE [ppu |-> [p EXCEPT !.registers[6] = sum.value],
                   ret |-> Cell(p.vram, ppu_addr), panic |-> FALSE]
    ELSE [ppu |-> p, ret |-> 0, panic |-> FALSE]

set_controller(p, val) ==
    [p EXCEPT !.registers[0] = val,
              !.temp_vram_addr = BitOr(BitAnd(@, \h73FF), ShlU16(BitAnd(val, \h3), 8))]

set_mask(p, val) ==
    [p EXCEPT !.show_background = (BitAnd(val, \h08) = \h08),
              !.show_sprites    = (BitAnd(val, \h10) = \h10)]

(***************************************************************************)
(* AddrRegister (src/ppu/addr_register.rs).  value is the pair             *)
(* (high, low): value[1] is `value.0`, value[2] is `value.1`.              *)
(***************************************************************************)
AddrRegister_new == [value |-> <<0, 0>>, hi_ptr |-> TRUE]

get(r) == BitOr(ShlU16(r.value[1], 8), r.value[2])

set(r, data) ==
    [r EXCEPT !.value = <<Shr(data, 8) % 256, BitAnd(data, \hFF)>>]

set_horizontal(r, t_addr) ==
    [r EXCEPT !.value[2] = BitOr(BitAnd(@, \hE0), BitAnd(t_addr, \h1F))]

set_vertical(r, t_data) ==
    LET y_high == Shr(BitAnd(t_data, \h0300), 8)
        y_low  == BitAnd(t_data, \h00E0)
    IN  [r EXCEPT !.value[1] = BitOr(BitAnd(@, \hFC), y_high),
                  !.value[2] = BitOr(BitAnd(@, \h1F), y_low)]

toggle_latch(r) == [r EXCEPT !.hi_ptr = ~r.hi_ptr]

reset_latch(r) == [r EXCEPT !.hi_ptr = TRUE]

latch(r) == r.hi_ptr

\* update(&mut self, data, temp: &mut u16): the register and *temp afterwards
update_8bit(r, data, tmp) ==
    IF r.hi_ptr
    THEN [reg  |-> toggle_latch(r),
          temp |-> BitOr(ShlU16(BitAnd(data, \h00FF), 8), BitAnd(tmp, \h00FF))]
    ELSE LET t == BitOr(BitAnd(data, \h00FF), BitAnd(tmp, \hFF00))
             r1 == [r EXCEPT !.value = <<Shr(BitAnd(t, \hFF00), 8), BitAnd(t, \h00FF)>>]
         IN  [reg |-> toggle_latch(r1), temp |-> t]
update(r, data, tmp) ==
    IF r.hi_ptr
    THEN LET t == tmp
         IN  [reg  |-> toggle_latch(r),
              temp |-> BitOr(ShlU16(BitAnd(data, \h003F), 8), BitAnd(t, \h00FF))]
    ELSE LET t == BitOr(BitAnd(data, \h00FF), BitAnd(tmp, \hFF00))
             r1 == [r EXCEPT !.value = <<Shr(BitAnd(t, \hFF00), 8), BitAnd(t, \h00FF)>>]
         IN  [reg |-> toggle_latch(r1), temp |-> t]

coarse_x_increment_no_flip(r) ==
    IF BitAnd(r.value[2], \h1F) = 31
    THEN [reg |-> [r EXCEPT !.value[2] = BitAnd(@, NotU8(\h1F))], panic |-> FALSE]
    ELSE [reg |-> [r EXCEPT !.value[2] = (@ + 1) % 256], panic |-> FALSE]
coarse_x_increment(r) ==
    IF BitAnd(r.value[2], \h1F) = 31
    THEN [reg |-> [r EXCEPT !.value[2] = BitAnd(@, NotU8(\h1F)),
                            !.value[1] = BitXor(@, \h04)],
          panic |-> FALSE]
    ELSE LET sum == AddAssignU8(r.value[2], 1)
         IN  IF sum.overflow /\ overflow_checks
             THEN [reg |-> r, panic |-> TRUE]
             ELSE [reg |-> [r EXCEPT !.value[2] = sum.value], panic |-> FALSE]

y_increment_flip_at_31(r) ==
    IF (r.value[1] \div 16) % 8 # 7
    THEN [reg |-> [r EXCEPT !.value[1] = (@ + 16) % 256], panic |-> FALSE]
    ELSE LET hi == r.value[1] - 112
             v  == hi * 256 + r.value[2]
             y  == (v \div 32) % 32
             v2 == IF y \in {29, 31}
                   THEN BitXor(v - y * 32, \h0800)
                   ELSE v + 32
         IN  [reg |-> [r EXCEPT !.value = <<v2 \div 256, v2 % 256>>], panic |-> FALSE]
y_increment(r) ==
    IF BitAnd(r.value[1], \h70) # \h70
    THEN LET sum == AddAssignU8(r.value[1], \h10)
         IN  IF sum.overflow /\ overflow_checks
             THEN [reg |-> r, panic |-> TRUE]
             ELSE [reg |-> [r EXCEPT !.value[1] = sum.value], panic |-> FALSE]
    ELSE LET r1 == [r EXCEPT !.value[1] = BitAnd(@, NotU8(\h70))]
             y  == Shr(BitAnd(get(r1), \h03E0), 5)
             r2 == IF y = 29 THEN [r1 EXCEPT !.value[1] = BitXor(@, \h08)] ELSE r1
             y2 == IF y = 29 THEN 0 ELSE IF y = 31 THEN 0 ELSE y + 1
         IN  [reg |-> set(r2, BitOr(BitAnd(get(r2), NotU16(\h03E0)), ShlU16(y2, 5))),
              panic |-> FALSE]

increment_no_carry(r, inc) ==
    LET r1 == [r EXCEPT !.value[2] = WrappingAddU8(@, inc)]
    IN  IF get(r1) > \h3FFF THEN set(r1, BitAnd(get(r1), \h3FFF)) ELSE r1
increment(r, inc) ==
    LET lo == r.value[2]
        r1 == [r EXCEPT !.value[2] = WrappingAddU8(@, inc)]
        r2 == IF lo > r1.value[2]
              THEN [r1 EXCEPT !.value[1] = WrappingAddU8(@, 1)]
              ELSE r1
    IN  IF get(r2) > \h3FFF THEN set(r2, BitAnd(get(r2), \h3FFF)) ELSE r2

\* the 16 bits of a register by arithmetic, and the fields of a loopy value
Raw(r) == r.value[1] * 256 + r.value[2]
CoarseX(v) == v % 32
CoarseY(v) == (v \div 32) % 32
NametableH(v) == (v \div 1024) % 2
NametableV(v) == (v \div 2048) % 2
FineY(v) == (v \div 4096) % 8

(***************************************************************************)
(* The PPU operations BUS::read / BUS::write / BUS::tick call              *)
(* (bus.rs:41-47, 67-69, 79), each bound to the ppu.rs function of that    *)
(* register.                                                               *)
(***************************************************************************)
\* `self.ppu.oam_addr = value`: the OAM cursor is registers[3]
set_oam_addr(p, value) == [p EXCEPT !.registers[3] = value]

write_to_oam(p, value) == set_oam_data(p, value)

read_oam(p) == PPU_read(p, 4)

write_to_scroll_own_toggle(p, value) ==
    [write_twice(p, 5, value) EXCEPT !.w_toggle = p.w_toggle]
write_to_scroll(p, value) == write_twice(p, 5, value)

write_to_ppu_addr(p, value) == write_twice(p, 6, value)

write_data(p, value) == set_vram(p, value)

read_data(p) == get_vram(p)

mask_update(p, value) == set_mask(p, value)

read_status(p) == PPU_read(p, 2)

\* What write_to_ctrl may answer (TRUE: raise NMI now): its result is computed
\* outside ppu.rs; an NMI can only be raised by a write that sets bit 7.
CtrlNmiResults(value) == IF BitAnd(value, \h80) = \h80 THEN BOOLEAN ELSE {FALSE}

write_to_ctrl(p, value, nmi) == [ppu |-> set_controller(p, value), ret |-> nmi]

\* self.ppu.tick(..): one PPU::step; `raise` is whether this dot raised an NMI
\* (the vblank entry), which sets nmi_occured.
ppu_tick(p, raise) ==
    [PPU_step(p).ppu EXCEPT !.nmi_occured = @ \/ raise]

(***************************************************************************)
(* BUS (src/cpu/bus.rs).  mapper, joypad and rom are collaborators: their  *)
(* arms leave the modelled state alone and their reads are answered 0.     *)
(***************************************************************************)
BUS_new == [ram |-> ZeroArray, ppu |-> PPU_new, interrupt |-> "None", suspend |-> FALSE]

\* the RAM cell of a CPU address: `addr as usize & 0x07FF` in read (bus.rs:65)
ram_read_index(a) == BitAnd(a, \h07FF)

\* `(addr as usize) & 0x07FF` in write (bus.rs:40)
ram_write_index_12bit(a) == BitAnd(a, \h0FFF)
ram_write_index(a) == BitAnd(a, \h07FF)

\* the register a mirror address $2008-$3FFF stands for: `addr & 0x2007`
mirror_low2(a) == BitAnd(a, \h2003)
mirror(a) == BitAnd(a, \h2007)

RECURSIVE BUS_read(_, _)
BUS_read(b, a) ==
    IF a \in \h0000 .. \h1FFF
    THEN [bus |-> b, ret |-> Cell(b.ram, ram_read_index(a)), panic |-> FALSE]
    ELSE IF a \in {\h2000, \h2003, \h2005, \h2006, \h4014}
    THEN [bus |-> b, ret |-> 0, panic |-> FALSE]
    ELSE IF a = \h2002
    THEN [bus |-> b, ret |-> read_status(b.ppu), panic |-> FALSE]
    ELSE IF a = \h2004
    THEN [bus |-> b, ret |-> read_oam(b.ppu), panic |-> FALSE]
    ELSE IF a = \h2007
    THEN LET r == read_data(b.ppu)
         IN  [bus |-> [b EXCEPT !.ppu = r.ppu], ret |-> r.ret, panic |-> r.panic]
    ELSE IF a \in \h2008 .. \h3FFF
    THEN BUS_read(b, mirror(a))
    ELSE [bus |-> b, ret |-> 0, panic |-> FALSE]

RECURSIVE BUS_write(_, _, _, _)
RECURSIVE dma_loop(_, _, _, _)
\* the `for i in 0..=0xFF` of the $4014 arm, iterations lo..hi in order, from
\* the result r of the iterations before (the range is run as two halves, one
\* after the other; x is r, evaluated once); an iteration that panics ends the
\* loop
dma_loop(r, page, lo, hi) ==
    CHOOSE out \in
        { IF x.panic
          THEN x
          ELSE IF lo = hi
          THEN LET rd == BUS_read(x.bus, page + lo)
               IN  IF rd.panic
                   THEN [bus |-> rd.bus, panic |-> TRUE]
                   ELSE BUS_write(rd.bus, \h2004, rd.ret, FALSE)
          ELSE LET mid == (lo + hi) \div 2
               IN  dma_loop(dma_loop(x, page, lo, mid), page, mid + 1, hi)
          : x \in {r} } : TRUE

\* nmi: the answer of write_to_ctrl, read only by the $2000 arm
BUS_write(b, a, value, nmi) ==
    IF a \in \h0000 .. \h1FFF
    THEN [bus |-> [b EXCEPT !.ram = Store(@, ram_write_index(a), value)], panic |-> FALSE]
    ELSE IF a = \h2000
    THEN LET r == write_to_ctrl(b.ppu, value, nmi)
         IN  [bus |-> [b EXCEPT !.ppu = r.ppu,
                                !.interrupt = IF r.ret THEN "Nmi" ELSE @],
              panic |-> FALSE]
    ELSE IF a = \h2001
    THEN [bus |-> [b EXCEPT !.ppu = mask_update(@, value)], panic |-> FALSE]
    ELSE IF a = \h2003
    THEN [bus |-> [b EXCEPT !.ppu = set_oam_addr(@, value)], panic |-> FALSE]
    ELSE IF a = \h2004
    THEN LET r == write_to_oam(b.ppu, value)
         IN  [bus |-> [b EXCEPT !.ppu = r.ppu], panic |-> r.panic]
    ELSE IF a = \h2005
    THEN [bus |-> [b EXCEPT !.ppu = write_to_scroll(@, value)], panic |-> FALSE]
    ELSE IF a = \h2006
    THEN [bus |-> [b EXCEPT !.ppu = write_to_ppu_addr(@, value)], panic |-> FALSE]
    ELSE IF a = \h2007
    THEN LET r == write_data(b.ppu, value)
         IN  [bus |-> [b EXCEPT !.ppu = r.ppu], panic |-> r.panic]
    ELSE IF a \in \h2008 .. \h3FFF
    THEN BUS_write(b, mirror(a), value, nmi)
    ELSE IF a = \h4014
    THEN dma_loop([bus |-> [b EXCEPT !.suspend = TRUE], panic |-> FALSE],
                  ShlU16(BitAnd(value, \hFF), 8), 0, \hFF)
    ELSE [bus |-> b, panic |-> FALSE]

\* one iteration of the loop of BUS::tick (bus.rs:79-84); raise is whether
\* this dot raised an NMI
tick_body_keep(b, raise) ==
    LET p == ppu_tick(b.ppu, raise)
        b1 == [b EXCEPT !.ppu = p]
    IN  IF p.nmi_occured THEN [b1 EXCEPT !.interrupt = "Nmi"] ELSE b1
tick_body(b, raise) ==
    LET p == ppu_tick(b.ppu, raise)
        b1 == [b EXCEPT !.ppu = p]
    IN  IF p.nmi_occured
        THEN [b1 EXCEPT !.interrupt = "Nmi", !.ppu.nmi_occured = FALSE]
        ELSE b1

\* the `for _ in 0..(3*cycles)` of BUS::tick, iterations k..n in order (k = 1
\* is the first) from the bus b before them; raises[k] is whether the k-th dot
\* raised an NMI (the range is run as two halves, one after the other; x is
\* b, evaluated once)
RECURSIVE tick_loop(_, _, _, _)
tick_loop(b, n, raises, k) ==
    CHOOSE out \in
        { IF k > n
          THEN x
          ELSE IF k = n
          THEN tick_body(x, raises[k])
          ELSE LET mid == (k + n) \div 2
               IN  tick_loop(tick_loop(x, mid, raises, k), n, raises, mid + 1)
          : x \in {b} } : TRUE

BUS_tick_per_cycle(b, cycles, raises) == tick_loop(b, cycles, raises, 1)
BUS_tick(b, cycles, raises) == tick_loop(b, 3 * cycles, raises, 1)

(***************************************************************************)
(* Frame (src/frame/mod.rs).  The buffer is filled with 0xFF by Frame::new *)
(* and is kept as the map of the cells that hold another colour.           *)
(***************************************************************************)
WIDTH == 256

HEIGHT == 240

FRAME_FILL == \hFF

Frame_new == [frame |-> ZeroArray, index |-> 0]

FrameCell(m, i) == IF i \in DOMAIN m THEN m[i] ELSE FRAME_FILL

FrameStore(m, i, x) ==
    IF x = FRAME_FILL
    THEN IF i \in DOMAIN m THEN [k \in (DOMAIN m) \ {i} |-> m[k]] ELSE m
    ELSE IF i \in DOMAIN m THEN [m EXCEPT ![i] = x] ELSE (i :> x) @@ m

\* Frame::set_pixel; indexing the array outside 0..WIDTH*HEIGHT-1 panics
set_pixel_no_wrap(f, color) ==
    IF f.index >= WIDTH * HEIGHT
    THEN [frame |-> f, panic |-> TRUE]
    ELSE [frame |-> [frame |-> FrameStore(f.frame, f.index, color), index |-> f.index + 1],
          panic |-> FALSE]
set_pixel(f, color) ==
    IF f.index >= WIDTH * HEIGHT
    THEN [frame |-> f, panic |-> TRUE]
    ELSE LET stored == FrameStore(f.frame, f.index, color)
             index  == f.index + 1
         IN  [frame |-> [frame |-> stored,
                         index |-> IF index = WIDTH * HEIGHT THEN 0 ELSE index],
              panic |-> FALSE]

\* n successive calls set_pixel(color) from the result r of the calls before
\* (run as two halves, one after the other; x is r, evaluated once); a call
\* that panics ends the run
RECURSIVE set_pixel_run(_, _, _)
set_pixel_run(r, color, n) ==
    CHOOSE out \in
        { IF x.panic \/ n = 0
          THEN x
          ELSE IF n = 1
          THEN set_pixel(x.frame, color)
          ELSE set_pixel_run(set_pixel_run(x, color, n \div 2), color, n - n \div 2)
          : x \in {r} } : TRUE

(***************************************************************************)
(* The machine: the CPU collaborator calls read / write / tick in program  *)
(* order.  After a panic the program has stopped.                          *)
(***************************************************************************)
NoOp == [op |-> "new", addr |-> 0, value |-> 0, ret |-> 0]

Init ==
    /\ bus = BUS_new
    /\ addr = AddrRegister_new
    /\ temp = 0
    /\ frame = Frame_new
    /\ overflow_checks \in BOOLEAN
    /\ panicked = FALSE
    /\ last = NoOp
    /\ prev = NoOp
    /\ raised = 0
    /\ nops = 0

\* raised, after n more NMIs were raised
Raise(n) == IF raised + n > 2 THEN 2 ELSE raised + n

Write(a, value, nmi) ==
    /\ ~panicked
    /\ LET r == BUS_write(bus, a, value, nmi)
       IN  /\ bus' = r.bus
           /\ panicked' = r.panic
    /\ last' = [op |-> "write", addr |-> a, value |-> value, ret |-> 0]
    /\ prev' = last
    /\ raised' = Raise(IF nmi THEN 1 ELSE 0)
    /\ nops' = nops + 1
    /\ UNCHANGED <<addr, temp, frame, overflow_checks>>

Read(a) ==
    /\ ~panicked
    /\ LET r == BUS_read(bus, a)
       IN  /\ bus' = r.bus
           /\ panicked' = r.panic
           /\ last' = [op |-> "read", addr |-> a, value |-> 0, ret |-> r.ret]
    /\ prev' = last
    /\ nops' = nops + 1
    /\ UNCHANGED <<addr, temp, frame, overflow_checks, raised>>

(***************************************************************************)
(* RAM: reads and writes over $0000-$1FFF.                                 *)
(***************************************************************************)
RamAddrs ==
    {\h0000, \h0001, \h07FF, \h0800, \h0801, \h0FFF, \h1000, \h1001, \h17FF,
     \h1800, \h1FFF}

RamValues == {\h00, \h5A, \hFF}

\* the addresses the claims are evaluated at: every mirror of four RAM cells,
\* one of them ($0400) never written
RamProbe == {c + k * RAM_SIZE : c \in {\h0000, \h0001, \h0400, \h07FF}, k \in 0 .. 3}

MaxRamOps == 4

WriteRam ==
    /\ nops < MaxRamOps
    /\ \E a \in RamAddrs, value \in RamValues : Write(a, value, FALSE)

ReadRam ==
    /\ nops < MaxRamOps
    /\ \E a \in RamAddrs : Read(a)

NextRam == WriteRam \/ ReadRam

SpecRam == Init /\ [][NextRam]_vars

\* C1: every address of $0000-$1FFF reads the same byte as its image
\* A & 0x07FF, and after a write to such an address every address with the same
\* low 11 bits (the image A & 0x07FF among them) reads the byte written.
C1_RamMirroring ==
    /\ \A a \in RamProbe :
          BUS_read(bus, a).ret = BUS_read(bus, BitAnd(a, \h07FF)).ret
    /\ (last.op = "write" /\ last.addr \in \h0000 .. \h1FFF) =>
          \A a \in RamProbe :
             (a % 2048 = last.addr % 2048) =>
                /\ BUS_read(bus, a).ret = last.value
                /\ BUS_read(bus, a).bus = bus

\* a write to a mirror ($1001) has acted and is seen at the base address $0001
C1_Witness ==
    /\ last.op = "write" /\ last.addr = \h1001 /\ last.value = \h5A
    /\ BUS_read(bus, \h0001).ret = \h5A
    /\ BUS_read(bus, \h0801).ret = \h5A

(***************************************************************************)
(* PPU registers through their mirrors $2008-$3FFF.                        *)
(***************************************************************************)
\* the answers write_to_ctrl may give for a write of value to address a
NmiInputs(a, value) ==
    IF a \in \h2000 .. \h3FFF /\ a % 8 = 0 THEN CtrlNmiResults(value) ELSE {FALSE}

\* one mirror of each of the eight registers
MirrorAddrs == {\h2008, \h2F01, \h3FFA, \h3453, \h3FFC, \h200D, \h3006, \h3FFF}

MirrorValues == {\h21, \hFF}

\* mirrors of the readable registers $2002, $2004, $2007 and of write-only $2000
MirrorReadAddrs == {\h3FFA, \h3FFC, \h3FFF, \h2008}

MaxMirrorOps == 3

WriteMirror ==
    /\ nops < MaxMirrorOps
    /\ \E a \in MirrorAddrs, value \in MirrorValues :
          \E nmi \in NmiInputs(a, value) : Write(a, value, nmi)

ReadMirror ==
    /\ nops < MaxMirrorOps
    /\ \E a \in MirrorReadAddrs : Read(a)

NextMirror == WriteMirror \/ ReadMirror

SpecMirror == Init /\ [][NextMirror]_vars

\* C2: from every state, a read or a write at a mirror address A of
\* $2008-$3FFF returns the same value and leaves the same state (a panic
\* included) as the same access at 0x2000 + (A & 7).
C2_RegisterMirroring ==
    \A a \in MirrorAddrs \cup {\h2806, \h37FF} :
        /\ a \in \h2008 .. \h3FFF
        /\ BUS_read(bus, a) = BUS_read(bus, \h2000 + (a % 8))
        /\ \A value \in MirrorValues : \A nmi \in NmiInputs(a, value) :
              BUS_write(bus, a, value, nmi) = BUS_write(bus, \h2000 + (a % 8), value, nmi)

\* a write through the $2004 mirror $3FFC has stored its byte in OAM at the
\* cursor set through the $2003 mirror $3453
C2_Witness ==
    /\ last.op = "write" /\ last.addr = \h3FFC /\ last.value = \h21
    /\ Cell(bus.ppu.oam, \hFF) = \h21

(***************************************************************************)
(* OAM: the cursor port $2003, the data port $2004 and the DMA trigger     *)
(* $4014.                                                                  *)
(***************************************************************************)
\* `for i in lo..=hi { bus.write(0x0200 + i, i) }` from the result r of the
\* writes before (run as two halves, one after the other)
RECURSIVE preset_page2(_, _, _)
preset_page2(r, lo, hi) ==
    CHOOSE out \in
        { IF x.panic
          THEN x
          ELSE IF lo = hi
          THEN BUS_write(x.bus, \h0200 + lo, lo, FALSE)
          ELSE LET mid == (lo + hi) \div 2
               IN  preset_page2(preset_page2(x, lo, mid), mid + 1, hi)
          : x \in {r} } : TRUE

\* a bus whose RAM $0200-$02FF holds 0..255
PresetBus == preset_page2([bus |-> BUS_new, panic |-> FALSE], 0, \hFF).bus

InitOam ==
    /\ bus \in {BUS_new, PresetBus}
    /\ addr = AddrRegister_new
    /\ temp = 0
    /\ frame = Frame_new
    /\ overflow_checks \in BOOLEAN
    /\ panicked = FALSE
    /\ last = NoOp
    /\ prev = NoOp
    /\ raised = 0
    /\ nops = 0

MaxOamOps == 3

OamCursors == {\h00, \h01, \hFE, \hFF}

OamValues == {\h11, \hFF}

\* source pages of a DMA: RAM page 2, its mirror page $0A, and page 0
DmaPages == {\h00, \h02, \h0A}

WriteOamAddr ==
    /\ nops < MaxOamOps
    /\ \E value \in OamCursors : Write(\h2003, value, FALSE)

WriteOamData ==
    /\ nops < MaxOamOps
    /\ \E a \in {\h2004, \h3FFC}, value \in OamValues : Write(a, value, FALSE)

ReadOamData ==
    /\ nops < MaxOamOps
    /\ \E a \in {\h2004, \h3FFC} : Read(a)

OamDma ==
    /\ nops < MaxOamOps
    /\ \E page \in DmaPages : Write(\h4014, page, FALSE)

NextOam == WriteOamAddr \/ WriteOamData \/ ReadOamData \/ OamDma

SpecOam == InitOam /\ [][NextOam]_vars

\* the step taken is a bus access (and not a stuttering step)
Stepped == nops' = nops + 1

IsReg(a, n) == a \in \h2000 .. \h3FFF /\ a % 8 = n

\* C3: a write of a page byte P to $4014 returns with the DMA-stall flag set
\* and with the 256 bytes P:00..P:FF copied in source order to OAM from the
\* cursor on (byte i at cursor + i mod 256); with RAM $0200-$02FF holding 0..255
\* and the cursor at 0, writing $02 leaves OAM[i] = i for every i.
C3_OamDma ==
    [][ (Stepped /\ last'.op = "write" /\ last'.addr = \h4014) =>
          LET page == last'.value * 256
              cursor == bus.ppu.registers[3]
          IN  /\ ~panicked'
              /\ bus'.suspend
              /\ \A i \in 0 .. 255 :
                    Cell(bus'.ppu.oam, (cursor + i) % 256) = BUS_read(bus, page + i).ret
              /\ (/\ last'.value = \h02
                  /\ cursor = 0
                  /\ \A i \in 0 .. 255 : BUS_read(bus, \h0200 + i).ret = i)
                 => \A i \in 0 .. 255 : Cell(bus'.ppu.oam, i) = i
      ]_vars

\* C5: a $2004 read returns oam[cursor] and changes neither the cursor nor
\* OAM; a $2004 write returns with the cursor advanced by 1 modulo 256, from
\* every cursor value, 255 included.
C5_OamCursor ==
    [][ /\ (Stepped /\ last'.op = "read" /\ IsReg(last'.addr, 4)) =>
             /\ last'.ret = Cell(bus.ppu.oam, bus.ppu.registers[3])
             /\ bus' = bus
             /\ ~panicked'
        /\ (Stepped /\ last'.op = "write" /\ IsReg(last'.addr, 4)) =>
             /\ ~panicked'
             /\ bus'.ppu.registers[3] = (bus.ppu.registers[3] + 1) % 256
      ]_vars

(***************************************************************************)
(* The write latch: $2000, $2005, $2006 writes and $2002 reads.            *)
(***************************************************************************)
MaxLatchOps == 3

AddrValues == {\h00, \h20, \h80}

ScrollValues == {\h7D}

CtrlValues == {\h03, \h80}

WriteAddrPort ==
    /\ nops < MaxLatchOps
    /\ \E value \in AddrValues : Write(\h2006, value, FALSE)

WriteScroll ==
    /\ nops < MaxLatchOps
    /\ \E value \in ScrollValues : Write(\h2005, value, FALSE)

WriteCtrl ==
    /\ nops < MaxLatchOps
    /\ \E value \in CtrlValues : \E nmi \in NmiInputs(\h2000, value) :
          Write(\h2000, value, nmi)

ReadStatus ==
    /\ nops < MaxLatchOps
    /\ Read(\h2002)

NextLatch == WriteAddrPort \/ WriteScroll \/ WriteCtrl \/ ReadStatus

SpecLatch == Init /\ [][NextLatch]_vars

IsWrite(o, a, value) == o.op = "write" /\ o.addr = a /\ o.value = value

\* C4 as stated: from first-write mode, writing $80 and then $00 to $2006
\* sets v = 0x2000 and leaves the toggle false; a $2006 write in first-write
\* mode (the third write) changes only the high byte of t, leaves v alone and
\* sets the toggle.
C4_AsStated ==
    [][ /\ (/\ Stepped
            /\ IsWrite(last, \h2006, \h80) /\ bus.ppu.w_toggle
            /\ IsWrite(last', \h2006, \h00)) =>
               /\ bus'.ppu.vram_addr = \h2000
               /\ ~bus'.ppu.w_toggle
        /\ (Stepped /\ last'.op = "write" /\ last'.addr = \h2006 /\ ~bus.ppu.w_toggle) =>
               /\ bus'.ppu.vram_addr = bus.ppu.vram_addr
               /\ bus'.ppu.temp_vram_addr % 256 = bus.ppu.temp_vram_addr % 256
               /\ bus'.ppu.w_toggle
      ]_vars

\* C4, amended: from first-write mode, writing $80 and then $00 to $2006 sets
\* v = 0x0000 (the first write keeps the low 6 bits of its byte: the pair h, l
\* sets v = ((h & 0x3F) << 8) | l, so $20, $00 sets 0x2000) and leaves the
\* toggle false; a $2006 write in first-write mode (the third write) changes
\* only the high byte of t, leaves v alone and sets the toggle.
C4_AddrLatch ==
    [][ /\ (/\ Stepped
            /\ IsWrite(last, \h2006, \h80) /\ bus.ppu.w_toggle
            /\ IsWrite(last', \h2006, \h00)) =>
               /\ bus'.ppu.vram_addr = \h0000
               /\ ~bus'.ppu.w_toggle
        /\ (/\ Stepped
            /\ last.op = "write" /\ last.addr = \h2006 /\ bus.ppu.w_toggle
            /\ last'.op = "write" /\ last'.addr = \h2006) =>
               /\ bus'.ppu.vram_addr = (last.value % 64) * 256 + last'.value
               /\ ~bus'.ppu.w_toggle
        /\ (Stepped /\ last'.op = "write" /\ last'.addr = \h2006 /\ ~bus.ppu.w_toggle) =>
               /\ bus'.ppu.vram_addr = bus.ppu.vram_addr
               /\ bus'.ppu.temp_vram_addr % 256 = bus.ppu.temp_vram_addr % 256
               /\ bus'.ppu.temp_vram_addr \div 256 = last'.value % 64
               /\ bus'.ppu.w_toggle
      ]_vars

\* the pair $80, $00 has been written to $2006 from power-on
C4_Witness ==
    /\ nops = 2
    /\ IsWrite(prev, \h2006, \h80)
    /\ IsWrite(last, \h2006, \h00)
    /\ bus.ppu.vram_addr = \h0000
    /\ ~bus.ppu.w_toggle

Bit(x, n) == (x \div (2 ^ n)) % 2 = 1

\* C10: a $2002 read returns in_vblank in bit 7 and sprite_zero_hit in bit 6,
\* leaves in_vblank false and the write toggle in first-write state, and
\* changes neither sprite-zero-hit nor the sprite-overflow bit.
C10_StatusRead ==
    [][ (Stepped /\ last'.op = "read" /\ IsReg(last'.addr, 2)) =>
           /\ Bit(last'.ret, 7) = bus.ppu.v_blank
           /\ Bit(last'.ret, 6) = bus.ppu.sprite_zero
           /\ ~bus'.ppu.v_blank
           /\ ~bus'.ppu.w_toggle
           /\ bus'.ppu.sprite_zero = bus.ppu.sprite_zero
           /\ Bit(bus'.ppu.registers[2], 5) = Bit(bus.ppu.registers[2], 5)
      ]_vars

IsLatchWrite(o) == o.op = "write" /\ o.addr \in {\h2005, \h2006}

\* C14: the write toggle is false at power-on; every write to $2005 or $2006
\* flips it, whichever of the two it targets; a write made with the toggle
\* false is handled as a first write and one made with the toggle true as a
\* second write (a second $2006 write copies t into v), so of the $2005/$2006
\* writes from power-on the odd ones are first writes and the even ones second.
C14_SharedLatch ==
    [][ /\ nops = 0 => ~bus.ppu.w_toggle
        /\ (Stepped /\ IsLatchWrite(last')) =>
             LET t  == bus.ppu.temp_vram_addr
                 t1 == bus'.ppu.temp_vram_addr
                 x  == last'.value
             IN  /\ bus'.ppu.w_toggle = ~bus.ppu.w_toggle
                 /\ (last'.addr = \h2006 /\ ~bus.ppu.w_toggle) =>
                       /\ bus'.ppu.vram_addr = bus.ppu.vram_addr
                       /\ t1 % 256 = t % 256
                       /\ t1 \div 256 = x % 64
                 /\ (last'.addr = \h2006 /\ bus.ppu.w_toggle) =>
                       /\ t1 % 256 = x
                       /\ t1 \div 256 = (t \div 256) % 128
                       /\ bus'.ppu.vram_addr = t1
                 /\ (last'.addr = \h2005 /\ ~bus.ppu.w_toggle) =>
                       /\ bus'.ppu.vram_addr = bus.ppu.vram_addr
                       /\ CoarseX(t1) = x \div 8
                       /\ t1 \div 32 = t \div 32
                 /\ (last'.addr = \h2005 /\ bus.ppu.w_toggle) =>
                       /\ bus'.ppu.vram_addr = bus.ppu.vram_addr
                       /\ CoarseY(t1) = x \div 8
                       /\ FineY(t1) = x % 8
                       /\ CoarseX(t1) = CoarseX(t)
                       /\ NametableH(t1) = NametableH(t)
                       /\ NametableV(t1) = NametableV(t)
        /\ (Stepped /\ nops = 0 /\ IsLatchWrite(last')) => bus'.ppu.w_toggle
        /\ (Stepped /\ nops = 1 /\ IsLatchWrite(last) /\ IsLatchWrite(last')) =>
              ~bus'.ppu.w_toggle
      ]_vars

\* a $2005 write followed by a $2006 write from power-on: the $2006 write was
\* the second write and copied t into v
C14_Witness ==
    /\ nops = 2
    /\ IsWrite(prev, \h2005, \h7D)
    /\ IsWrite(last, \h2006, \h20)
    /\ bus.ppu.temp_vram_addr = \h0020
    /\ bus.ppu.vram_addr = \h0020
    /\ ~bus.ppu.w_toggle

\* C20: a write of x to $2000 sets the nametable-select bits of t (bits 10-11)
\* to the low 2 bits of x and leaves coarse X, coarse Y and fine Y of t, v and
\* the write toggle unchanged.
C20_ControlWrite ==
    [][ (Stepped /\ last'.op = "write" /\ IsReg(last'.addr, 0)) =>
           LET t  == bus.ppu.temp_vram_addr
               t1 == bus'.ppu.temp_vram_addr
               x  == last'.value
           IN  /\ NametableH(t1) = x % 2
               /\ NametableV(t1) = (x \div 2) % 2
               /\ CoarseX(t1) = CoarseX(t)
               /\ CoarseY(t1) = CoarseY(t)
               /\ FineY(t1) = FineY(t)
               /\ bus'.ppu.vram_addr = bus.ppu.vram_addr
               /\ bus'.ppu.w_toggle = bus.ppu.w_toggle
      ]_vars

(***************************************************************************)
(* The data port: $2006 pairs, $2000 writes (increment select) and $2007   *)
(* reads and writes.                                                       *)
(***************************************************************************)
MaxDataOps == 4

DataAddrValues == {\h00, \h20, \h21}

DataValues == {\h55}

IncrementCtrlValues == {\h00, \h04}

WriteAddrData ==
    /\ nops < MaxDataOps
    /\ \E value \in DataAddrValues : Write(\h2006, value, FALSE)

WriteCtrlData ==
    /\ nops < MaxDataOps
    /\ \E value \in IncrementCtrlValues : \E nmi \in NmiInputs(\h2000, value) :
          Write(\h2000, value, nmi)

WriteData ==
    /\ nops < MaxDataOps
    /\ \E value \in DataValues : Write(\h2007, value, FALSE)

ReadData ==
    /\ nops < MaxDataOps
    /\ Read(\h2007)

NextData == WriteAddrData \/ WriteCtrlData \/ WriteData \/ ReadData

SpecData == Init /\ [][NextData]_vars

\* C15: a $2007 write stores its byte at VRAM address v modulo 2^14 and a
\* $2007 read returns the byte at that address; after either, v has advanced by
\* 1 (control bit 2 clear) or 32 (set), masked to 14 bits.
C15_DataPort ==
    [][ (Stepped /\ last'.addr = \h2007) =>
           LET v   == bus.ppu.vram_addr
               a   == v % PPU_RAM_SIZE
               inc == IF Bit(bus.ppu.registers[0], 2) THEN 32 ELSE 1
           IN  /\ ~panicked'
               /\ last'.op = "write" => Cell(bus'.ppu.vram, a) = last'.value
               /\ last'.op = "read" => last'.ret = Cell(bus.ppu.vram, a)
               /\ bus'.ppu.vram_addr = (v + inc) % PPU_RAM_SIZE
      ]_vars

(***************************************************************************)
(* Interrupts: BUS::tick, NMI-enabling $2000 writes, and the CPU taking    *)
(* the pending interrupt.                                                  *)
(***************************************************************************)
MaxIrqOps == 3

MaxTickCycles == 2

Tick(cycles, raises) ==
    /\ ~panicked
    /\ bus' = BUS_tick(bus, cycles, raises)
    /\ last' = [op |-> "tick", addr |-> 0, value |-> cycles, ret |-> 0]
    /\ prev' = last
    /\ raised' = Raise(Cardinality({k \in 1 .. 3 * cycles : raises[k]}))
    /\ nops' = nops + 1
    /\ UNCHANGED <<addr, temp, frame, overflow_checks, panicked>>

\* the CPU collaborator takes the pending interrupt (`bus.interrupt` is pub):
\* last.value is the number of NMIs raised since it last did
Poll ==
    /\ ~panicked
    /\ bus' = [bus EXCEPT !.interrupt = "None"]
    /\ last' = [op |-> "poll", addr |-> 0, value |-> raised, ret |-> 0]
    /\ prev' = last
    /\ raised' = 0
    /\ nops' = nops + 1
    /\ UNCHANGED <<addr, temp, frame, overflow_checks, panicked>>

TickIrq ==
    /\ nops < MaxIrqOps
    /\ \E cycles \in 1 .. MaxTickCycles :
          \E raises \in [1 .. 3 * cycles -> BOOLEAN] : Tick(cycles, raises)

WriteCtrlIrq ==
    /\ nops < MaxIrqOps
    /\ \E value \in {\h00, \h80} : \E nmi \in NmiInputs(\h2000, value) :
          Write(\h2000, value, nmi)

PollIrq ==
    /\ nops < MaxIrqOps
    /\ Poll

NextIrq == TickIrq \/ WriteCtrlIrq \/ PollIrq

SpecIrq == Init /\ [][NextIrq]_vars

\* C6: the bus holds one pending-interrupt slot: while NMIs have been raised
\* (once, twice or more, by ticks or $2000 writes) and not taken, the slot is
\* the one pending NMI; once the CPU has taken it the slot is empty and no
\* request is left in the PPU, so a second NMI shows only if one is raised anew.
C6_InterruptSlot ==
    /\ bus.interrupt \in {"None", "Nmi"}
    /\ raised >= 1 => bus.interrupt = "Nmi"
    /\ raised = 0 => bus.interrupt = "None"
    /\ ~bus.ppu.nmi_occured

\* two NMIs were raised, the CPU took the interrupt once, and a tick that
\* raised nothing has run since: the slot is still empty
C6_Witness ==
    /\ prev.op = "poll" /\ prev.value = 2
    /\ last.op = "tick"
    /\ raised = 0
    /\ bus.interrupt = "None"

\* the PPU after n successive calls of PPU::step
RECURSIVE StepTimes(_, _)
StepTimes(p, n) == IF n = 0 THEN p ELSE StepTimes(PPU_step(p).ppu, n - 1)

\* C11: BUS::tick(cycles) steps the PPU exactly 3 * cycles times, whether or
\* not an NMI is raised on the way; if a dot of the tick raised an NMI the
\* pending-interrupt slot is NMI afterwards, otherwise the slot is unchanged;
\* and the PPU's fresh-NMI indication is consumed (false) when tick returns.
C11_TickSteps ==
    [][ (Stepped /\ last'.op = "tick") =>
           /\ [bus'.ppu EXCEPT !.nmi_occured = FALSE]
                 = [StepTimes(bus.ppu, 3 * last'.value) EXCEPT !.nmi_occured = FALSE]
           /\ ~bus'.ppu.nmi_occured
           /\ raised' > raised => bus'.interrupt = "Nmi"
           /\ (raised' = raised /\ raised < 2) => bus'.interrupt = bus.interrupt
           /\ bus'.ram = bus.ram /\ bus'.suspend = bus.suspend
      ]_vars

\* tick(2) from power-on, one of its six dots raised an NMI: six steps were
\* taken and the slot holds the NMI
C11_Witness ==
    /\ nops = 1 /\ last.op = "tick" /\ last.value = 2
    /\ raised = 1
    /\ bus.interrupt = "Nmi"
    /\ bus.ppu = StepTimes(PPU_new, 6)

(***************************************************************************)
(* PPU timing: the PPU driven through BUS::tick, PPU::step and PPU::write   *)
(* (`ppu` is a pub field of BUS), with $2000 writes to set NMI-enable.      *)
(* A frame is Scanlines x ScanlineDots dots; power-on is dot 0 of the       *)
(* pre-render scanline, so the step taken at dot 1 of the pre-render        *)
(* scanline is the second step, and the step taken at dot 1 of scanline     *)
(* VblankScanline is step number VblankEntryDots + 1.                       *)
(***************************************************************************)
ScanlineDots == 341

Scanlines == 262

VblankScanline == 241

FrameDots == Scanlines * ScanlineDots

\* steps from power-on to dot 1 of scanline VblankScanline
VblankEntryDots == ScanlineDots + VblankScanline * ScanlineDots + 1

\* CPU cycles whose dots end inside the visible scanlines / inside vblank
VisibleCycles == (VblankScanline * ScanlineDots) \div 3

VblankCycles == FrameDots \div 3

MaxPpuOps == 2

PpuTickCycles == {1, VisibleCycles, VblankCycles}

StatusValues == {\hE0}

\* PPU::step returns the interrupt field, which no function of ppu.rs assigns:
\* every step of a run surfaces what the field holds at its start
StepRaises(p, n) == [k \in 1 .. n |-> p.interrupt = "Nmi"]

in_vblank(p) == p.v_blank \/ Bit(p.registers[2], 7)

\* bus.ppu.step()
Step ==
    /\ ~panicked
    /\ bus' = [bus EXCEPT !.ppu = PPU_step(@).ppu]
    /\ last' = [op |-> "step", addr |-> 0, value |-> 0, ret |-> 0]
    /\ prev' = last
    /\ nops' = nops + 1
    /\ UNCHANGED <<addr, temp, frame, overflow_checks, panicked, raised>>

\* bus.ppu.write(a, val)
PpuWrite(a, val) ==
    /\ ~panicked
    /\ bus' = [bus EXCEPT !.ppu = PPU_write(@, a, val)]
    /\ last' = [op |-> "ppu_write", addr |-> a, value |-> val, ret |-> 0]
    /\ prev' = last
    /\ nops' = nops + 1
    /\ UNCHANGED <<addr, temp, frame, overflow_checks, panicked, raised>>

StepPpu ==
    /\ nops < MaxPpuOps
    /\ Step

TickPpu ==
    /\ nops < MaxPpuOps
    /\ \E cycles \in PpuTickCycles : Tick(cycles, StepRaises(bus.ppu, 3 * cycles))

WriteStatusPpu ==
    /\ nops < MaxPpuOps
    /\ \E val \in StatusValues : PpuWrite(2, val)

WriteCtrlPpu ==
    /\ nops < MaxPpuOps
    /\ \E value \in {\h00, \h80} : \E nmi \in NmiInputs(\h2000, value) :
          Write(\h2000, value, nmi)

NextPpu == StepPpu \/ TickPpu \/ WriteStatusPpu \/ WriteCtrlPpu

SpecPpu == Init /\ [][NextPpu]_vars

\* C12: a run of PPU steps from power-on that has passed dot 1 of scanline 241
\* and not yet the end of the frame has in_vblank set, and if NMI-enable (bit 7
\* of the last $2000 write) was set when it passed that dot, the NMI is pending.
C12_VblankEntry ==
    (/\ last.op = "tick" /\ last.value = VblankCycles
     /\ \/ nops = 1
        \/ nops = 2 /\ prev.op = "write" /\ prev.addr = \h2000)
    => /\ in_vblank(bus.ppu)
       /\ Bit(bus.ppu.registers[0], 7) => bus.interrupt = "Nmi"

\* C13: every PPU step leaves the dot counter in 0..340: it advances the dot
\* by one, and a step taken at dot 340 sets the dot to 0.
C13_DotCounter ==
    [][ (Stepped /\ last'.op = "step") =>
           /\ bus'.ppu.cycle \in 0 .. 340
           /\ bus'.ppu.cycle = IF bus.ppu.cycle = 340 THEN 0 ELSE bus.ppu.cycle + 1
      ]_vars

\* C17: a run of PPU steps that passes dot 1 of the pre-render scanline (the
\* second step from power-on) clears in_vblank, sprite-zero-hit and
\* sprite-overflow: status flags set at power-on are clear after any tick that
\* ends before the next vblank entry, so in_vblank is false again within a frame.
C17_PreRenderClear ==
    (/\ nops = 2
     /\ prev.op = "ppu_write" /\ prev.addr = 2
     /\ last.op = "tick" /\ 3 * last.value >= 2 /\ 3 * last.value <= VblankEntryDots)
    => /\ ~in_vblank(bus.ppu)
       /\ ~Bit(bus.ppu.registers[2], 6)
       /\ ~Bit(bus.ppu.registers[2], 5)

(***************************************************************************)
(* Frame: set_pixel calls, one at a time or a run of them with the fill    *)
(* colour.  last.addr is the index the last call stored at, last.value its *)
(* colour, last.ret the number of calls made since Frame::new.             *)
(***************************************************************************)
MaxFrameOps == 3

PixelColors == {\h01, \h02, \h03}

PixelRuns == {WIDTH * HEIGHT - 1}

\* n successive calls frame.set_pixel(color)
SetPixels(color, n) ==
    /\ ~panicked
    /\ \E before \in {set_pixel_run([frame |-> frame, panic |-> FALSE], color, n - 1)} :
       \E r \in {IF before.panic THEN before ELSE set_pixel(before.frame, color)} :
          /\ frame' = r.frame
          /\ panicked' = r.panic
          /\ last' = [op |-> "set_pixel", addr |-> before.frame.index,
                      value |-> color, ret |-> last.ret + n]
    /\ prev' = last
    /\ nops' = nops + 1
    /\ UNCHANGED <<bus, addr, temp, overflow_checks, raised>>

SetPixel ==
    /\ nops < MaxFrameOps
    /\ \E color \in PixelColors : SetPixels(color, 1)

SetPixelRun ==
    /\ nops < MaxFrameOps
    /\ \E n \in PixelRuns : SetPixels(FRAME_FILL, n)

NextFrame == SetPixel \/ SetPixelRun

SpecFrame == Init /\ [][NextFrame]_vars

\* C16: set_pixel(color) stores color at the cursor and advances the cursor by
\* 1, wrapping to 0 after index WIDTH*HEIGHT-1: after any number of calls the
\* cursor is in 0..WIDTH*HEIGHT-1 and no call indexes out of bounds, the n-th
\* call writes index (n-1) mod (WIDTH*HEIGHT), and a call (or a run of calls)
\* changes no cell but the ones it writes.
C16_FrameSink ==
    [][ (Stepped /\ last'.op = "set_pixel") =>
           LET size == WIDTH * HEIGHT
               n    == last'.ret - last.ret
               written(i) == (i - frame.index) % size < n
           IN  /\ ~panicked'
               /\ frame'.index \in 0 .. size - 1
               /\ frame'.index = (frame.index + n) % size
               /\ last'.addr = (last'.ret - 1) % size
               /\ FrameCell(frame'.frame, last'.addr) = last'.value
               /\ \A i \in (DOMAIN frame.frame) \cup (DOMAIN frame'.frame) :
                     FrameCell(frame'.frame, i) =
                        IF written(i) THEN last'.value ELSE FrameCell(frame.frame, i)
      ]_vars

\* WIDTH*HEIGHT + 1 calls were made: the call before the last wrote the last
\* cell and wrapped the cursor, the last call overwrote cell 0
C16_Witness ==
    /\ last.op = "set_pixel" /\ last.ret = WIDTH * HEIGHT + 1
    /\ last.addr = 0 /\ last.value = \h02
    /\ frame.index = 1
    /\ FrameCell(frame.frame, 0) = \h02
    /\ FrameCell(frame.frame, WIDTH * HEIGHT - 1) = \h02
    /\ FrameCell(frame.frame, 1) = FRAME_FILL

(***************************************************************************)
(* AddrRegister: each operation applied once to every 16-bit value.        *)
(* last.value is the register's value before the operation, last.addr the  *)
(* operation's argument.                                                   *)
(***************************************************************************)
InitAddr ==
    /\ bus = BUS_new
    /\ \E hi \in Byte, lo \in Byte : addr = [value |-> <<hi, lo>>, hi_ptr |-> TRUE]
    /\ temp = 0
    /\ frame = Frame_new
    /\ overflow_checks \in BOOLEAN
    /\ panicked = FALSE
    /\ last = NoOp
    /\ prev = NoOp
    /\ raised = 0
    /\ nops = 0

Applied(name, arg, r, panic) ==
    /\ last = NoOp
    /\ addr' = r
    /\ panicked' = panic
    /\ last' = [op |-> name, addr |-> arg, value |-> Raw(addr), ret |-> 0]
    /\ nops' = nops + 1
    /\ UNCHANGED <<bus, temp, frame, overflow_checks, prev, raised>>

Increment == \E inc \in {1, 32} : Applied("increment", inc, increment(addr, inc), FALSE)

CoarseXIncrement ==
    LET r == coarse_x_increment(addr)
    IN  Applied("coarse_x_increment", 0, r.reg, r.panic)

YIncrement ==
    LET r == y_increment(addr)
    IN  Applied("y_increment", 0, r.reg, r.panic)

NextAddr == Increment \/ CoarseXIncrement \/ YIncrement

SpecAddr == InitAddr /\ [][NextAddr]_vars

\* C7: increment(amount), amount 1 or 32, from any 16-bit value leaves
\* (old + amount) masked to 14 bits, the carry of the low byte taken into the
\* high byte; the stored address is then in 0x0000-0x3FFF.
C7_Bump ==
    last.op = "increment" =>
        /\ Raw(addr) = (last.value + last.addr) % 16384
        /\ Raw(addr) \in \h0000 .. \h3FFF
        /\ ~panicked

\* bump(32) from 0x3FF0 has carried past 0x3FFF and been masked back to 0x0010
C7_Witness ==
    /\ last.op = "increment" /\ last.addr = 32 /\ last.value = \h3FF0
    /\ Raw(addr) = \h0010

\* C8: coarse_x_increment on a 15-bit value: coarse-X 31 becomes 0 with the
\* horizontal-nametable bit (bit 10) flipped, any other coarse-X goes up by 1
\* with bit 10 unchanged; fine-Y, coarse-Y and the vertical-nametable bit are
\* unchanged.
C8_CoarseXIncrement ==
    (last.op = "coarse_x_increment" /\ last.value < \h8000) =>
        LET old == last.value
            new == Raw(addr)
        IN  /\ ~panicked
            /\ new < \h8000
            /\ IF CoarseX(old) = 31
               THEN CoarseX(new) = 0 /\ NametableH(new) = 1 - NametableH(old)
               ELSE CoarseX(new) = CoarseX(old) + 1 /\ NametableH(new) = NametableH(old)
            /\ FineY(new) = FineY(old)
            /\ CoarseY(new) = CoarseY(old)
            /\ NametableV(new) = NametableV(old)

\* coarse-X 31 with the horizontal-nametable bit set has wrapped to 0 and
\* cleared the bit
C8_Witness ==
    /\ last.op = "coarse_x_increment" /\ last.value = \h7FFF
    /\ Raw(addr) = \h7BE0

\* C9: y_increment on a 15-bit value: fine-Y < 7 goes up by 1 and nothing
\* else changes; at fine-Y 7 fine-Y becomes 0 and coarse-Y 29 becomes 0 with the
\* vertical-nametable bit (bit 11) flipped, coarse-Y 31 becomes 0 with bit 11
\* unchanged, any other coarse-Y goes up by 1; coarse-X and the
\* horizontal-nametable bit never change.
C9_YIncrement ==
    (last.op = "y_increment" /\ last.value < \h8000) =>
        LET old == last.value
            new == Raw(addr)
        IN  /\ ~panicked
            /\ new < \h8000
            /\ CoarseX(new) = CoarseX(old)
            /\ NametableH(new) = NametableH(old)
            /\ IF FineY(old) < 7
               THEN new = old + 4096
               ELSE /\ FineY(new) = 0
                    /\ CASE CoarseY(old) = 29 ->
                              CoarseY(new) = 0 /\ NametableV(new) = 1 - NametableV(old)
                         [] CoarseY(old) = 31 ->
                              CoarseY(new) = 0 /\ NametableV(new) = NametableV(old)
                         [] OTHER ->
                              CoarseY(new) = CoarseY(old) + 1
                              /\ NametableV(new) = NametableV(old)

\* fine-Y 7 at coarse-Y 31: both reset, the nametable bits kept
C9_Witness ==
    /\ last.op = "y_increment" /\ last.value = \h7FE5
    /\ Raw(addr) = \h0C05

(***************************************************************************)
(* AddrRegister reloads: set_horizontal / set_vertical applied once to     *)
(* every 15-bit value v, from each source t of ReloadSources (held in      *)
(* temp).  last.value is v before the call, last.addr the source t.        *)
(***************************************************************************)
ReloadSources == {\h0000, \h7FFF, \h041F, \h7BE0}

InitReload ==
    /\ bus = BUS_new
    /\ \E hi \in 0 .. 127, lo \in Byte : addr = [value |-> <<hi, lo>>, hi_ptr |-> TRUE]
    /\ temp \in ReloadSources
    /\ frame = Frame_new
    /\ overflow_checks \in BOOLEAN
    /\ panicked = FALSE
    /\ last = NoOp
    /\ prev = NoOp
    /\ raised = 0
    /\ nops = 0

SetHorizontal == Applied("set_horizontal", temp, set_horizontal(addr, temp), FALSE)

SetVertical == Applied("set_vertical", temp, set_vertical(addr, temp), FALSE)

NextReload == SetHorizontal \/ SetVertical

SpecReload == InitReload /\ [][NextReload]_vars

\* C18: set_horizontal applied to v with source t yields a value whose coarse X
\* (bits 0-4) and horizontal-nametable bit (bit 10) are those of t and whose
\* coarse Y, fine Y and vertical-nametable bit are those of the old v.
C18_SetHorizontal ==
    last.op = "set_horizontal" =>
        LET v0 == last.value
            t  == last.addr
            v1 == Raw(addr)
        IN  /\ CoarseX(v1) = CoarseX(t)
            /\ NametableH(v1) = NametableH(t)
            /\ CoarseY(v1) = CoarseY(v0)
            /\ FineY(v1) = FineY(v0)
            /\ NametableV(v1) = NametableV(v0)

\* C19: set_vertical applied to v with source t yields a value whose coarse Y
\* (bits 5-9), fine Y (bits 12-14) and vertical-nametable bit (bit 11) are
\* those of t and whose coarse X and horizontal-nametable bit are those of the
\* old v.
C19_SetVertical ==
    last.op = "set_vertical" =>
        LET v0 == last.value
            t  == last.addr
            v1 == Raw(addr)
        IN  /\ CoarseY(v1) = CoarseY(t)
            /\ FineY(v1) = FineY(t)
            /\ NametableV(v1) = NametableV(t)
            /\ CoarseX(v1) = CoarseX(v0)
            /\ NametableH(v1) = NametableH(v0)

(***************************************************************************)
(* The loopy registers together: the PPU's v and t under $2000, $2005,     *)
(* $2006 and $2007 accesses, and an AddrRegister with its temp under       *)
(* update, increment, coarse_x_increment, y_increment and the two reloads  *)
(* (whose source is either t), all from v = t = 0.  These steps keep no    *)
(* history.                                                                *)
(***************************************************************************)
MaxLoopyOps == 6

LoopyCtrlValues == {\h03}

LoopyScrollValues == {\hFF, \h7D}

LoopyAddrValues == {\hFF, \h3F}

LoopyStep(b, r, tmp, panic) ==
    /\ ~panicked
    /\ nops < MaxLoopyOps
    /\ bus' = b
    /\ addr' = r
    /\ temp' = tmp
    /\ panicked' = panic
    /\ nops' = nops + 1
    /\ UNCHANGED <<frame, overflow_checks, last, prev, raised>>

LoopyWrite(a, value) ==
    \E w \in {BUS_write(bus, a, value, FALSE)} : LoopyStep(w.bus, addr, temp, w.panic)

LoopyCtrl == \E value \in LoopyCtrlValues : LoopyWrite(\h2000, value)

LoopyScroll == \E value \in LoopyScrollValues : LoopyWrite(\h2005, value)

LoopyAddr == \E value \in LoopyAddrValues : LoopyWrite(\h2006, value)

LoopyDataWrite == LoopyWrite(\h2007, \h55)

LoopyDataRead ==
    \E rd \in {BUS_read(bus, \h2007)} : LoopyStep(rd.bus, addr, temp, rd.panic)

LoopyUpdate ==
    \E data \in LoopyAddrValues :
       \E u \in {update(addr, data, temp)} : LoopyStep(bus, u.reg, u.temp, FALSE)

LoopyIncrement ==
    \E inc \in {1, 32} : LoopyStep(bus, increment(addr, inc), temp, FALSE)

LoopyCoarseX ==
    \E c \in {coarse_x_increment(addr)} : LoopyStep(bus, c.reg, temp, c.panic)

LoopyY ==
    \E y \in {y_increment(addr)} : LoopyStep(bus, y.reg, temp, y.panic)

LoopyHorizontal ==
    \E t \in {temp, bus.ppu.temp_vram_addr} :
       LoopyStep(bus, set_horizontal(addr, t), temp, FALSE)

LoopyVertical ==
    \E t \in {temp, bus.ppu.temp_vram_addr} :
       LoopyStep(bus, set_vertical(addr, t), temp, FALSE)

NextLoopy ==
    \/ LoopyCtrl \/ LoopyScroll \/ LoopyAddr \/ LoopyDataWrite \/ LoopyDataRead
    \/ LoopyUpdate \/ LoopyIncrement \/ LoopyCoarseX \/ LoopyY
    \/ LoopyHorizontal \/ LoopyVertical

SpecLoopy == Init /\ [][NextLoopy]_vars

\* C21: from v = t = 0, after any sequence of $2000, $2005, $2006 and $2007
\* accesses and of coarse_x_increment, y_increment, reload and increment
\* operations, v and t are at most 0x7FFF: bit 15 is never set, in the PPU's
\* pair and in the AddrRegister's.
C21_FifteenBits ==
    /\ bus.ppu.vram_addr <= \h7FFF
    /\ bus.ppu.temp_vram_addr <= \h7FFF
    /\ Raw(addr) <= \h7FFF
    /\ temp <= \h7FFF

\* the PPU's v and t hold all fifteen bits and the AddrRegister was loaded
\* with 0x3FFF by an update pair
C21_Witness ==
    /\ nops = 6
    /\ bus.ppu.vram_addr = \h7FFF
    /\ bus.ppu.temp_vram_addr = \h7FFF
    /\ Raw(addr) = \h3FFF
    /\ temp = \h3FFF

====
